---- MODULE Spec2Model ----
(***************************************************************************)
(* The web shop of src/app.py (register, login, cart, checkout, success,   *)
(* cancel) together with the admin gate of src/admin_route.py, over the    *)
(* one SQLite file users.db both programs open and the signed session      *)
(* cookie both programs share (same secret key, same cookie name).         *)
(*                                                                         *)
(* Strings that the code transforms (emails, passwords) are sequences of   *)
(* one-character strings, so that strip(), lower() and the character-class *)
(* searches of password_is_strong are computed, not assumed.  Prices are   *)
(* whole numbers of cents: the model does not cover float rounding.        *)
(***************************************************************************)
EXTENDS Integers, Sequences, FiniteSets, TLC

\* ------------------------------------------------------------------ bounds
\* how many add-to-cart requests are served in one behaviour
MaxAdds == 2
\* how many hosted payment sessions the provider is asked for in one behaviour
MaxPayments == 1
\* largest stock a product row starts with
MaxStock == 1

Sessions == {"s1", "s2"}
ProductNames == {"Widget", "Gadget"}
Prices == {5, 10}
\* the price the shop's pages put in the add-to-cart link of each product
ListPrice(name) == IF name = "Widget" THEN 10 ELSE 5

\* ------------------------------------------------------------------ strings
UpperLetters == <<"A","B","C","D","E","F","G","H","I","J","K","L","M",
                  "N","O","P","Q","R","S","T","U","V","W","X","Y","Z">>
LowerLetters == <<"a","b","c","d","e","f","g","h","i","j","k","l","m",
                  "n","o","p","q","r","s","t","u","v","w","x","y","z">>
Digits == {"0","1","2","3","4","5","6","7","8","9"}
Symbols == {"!","@","#","$","%","^","&","*","(",")",",",".","?","\"",":","{","}","|","<",">"}
Whitespace == {" "}

Range(f) == {f[i] : i \in DOMAIN f}

\* str.lower() on one character
LowerChar(c) ==
    IF \E i \in DOMAIN UpperLetters : UpperLetters[i] = c
    THEN LowerLetters[CHOOSE i \in DOMAIN UpperLetters : UpperLetters[i] = c]
    ELSE c

Lower(str) == [i \in DOMAIN str |-> LowerChar(str[i])]

\* str.strip(): drop leading and trailing whitespace
RECURSIVE LStrip(_)
LStrip(str) ==
    IF str # <<>> /\ Head(str) \in Whitespace THEN LStrip(Tail(str)) ELSE str

RECURSIVE RStrip(_)
RStrip(str) ==
    IF str # <<>> /\ str[Len(str)] \in Whitespace
    THEN RStrip(SubSeq(str, 1, Len(str) - 1))
    ELSE str

Strip(str) == LStrip(RStrip(str))

\* request.form["email"].strip().lower()
NormalizeEmail(raw) == Lower(Strip(raw))

MinPasswordLen == 8

password_is_strong(password) ==
    /\ Len(password) >= MinPasswordLen
    /\ \E i \in DOMAIN password : password[i] \in Range(UpperLetters)
    /\ \E i \in DOMAIN password : password[i] \in Range(LowerLetters)
    /\ \E i \in DOMAIN password : password[i] \in Digits
    /\ \E i \in DOMAIN password : password[i] \in Symbols

\* werkzeug's salted digest, as a capability: the digest names its salt and
\* verifies exactly the password it was made from
Salts == {"salt"}
generate_password_hash(password, salt) == [salt |-> salt, of |-> password]
check_password_hash(digest, password) ==
    digest = generate_password_hash(password, digest.salt)

AdminEmail == <<"a","d","m","i","n","@","s","h","o","p",".","c","o","m">>
AdminPassword == <<"A","d","m","i","n","1","2","3","!">>
UserRawEmail == <<" ","B","o","b","@","x"," ">>
UserEmail == <<"b","o","b","@","x">>
UserPassword == <<"P","a","s","s","w","0","r","d","?">>
WeakPassword == <<"p","a","s","s">>

\* ------------------------------------------------------------------ state
VARIABLES
    users,        \* table users: set of rows [email, password, role]; email UNIQUE
    products,     \* table products: products[id] = [name, stock]
    orders,       \* table orders, committed rows in id order
    order_items,  \* table order_items, committed rows in id order
    txn,          \* the open write transaction on users.db, or NoTxn
    session,      \* session[s]: the session cookie of browser s: [user, cart]
    req,          \* req[s]: the /success request of s in flight, or Idle
    payments,     \* the provider's hosted payment sessions: [owner, status]
    addsLog,      \* history: the adds served for s since its cart was last emptied
    nAdds,        \* history: add-to-cart requests served so far
    last          \* history: the step taken last and its outcome

vars == <<users, products, orders, order_items, txn, session, req, payments,
          addsLog, nAdds, last>>

Null == 0
NoTxn == [owner |-> {}, products |-> <<>>, orders |-> <<>>, order_items |-> <<>>]
Idle == [pc |-> "idle", cart_items |-> <<>>, i |-> 0, order_id |-> Null]

\* "user" in session
LoggedIn(s) == session[s].user # {}
\* session.get("user")
UserOf(s) == CHOOSE e \in session[s].user : TRUE

Reply(s, op, out) == last' = [s |-> s, op |-> op, out |-> out]
\* the reply to a posted login form, with the form it answers
ReplyToForm(s, op, out, raw, password) ==
    last' = [s |-> s, op |-> op, out |-> out, email |-> raw, password |-> password]

\* ------------------------------------------------------------------ cart
\* the loop that gives legacy items a quantity
WithQuantity(cart) ==
    [k \in DOMAIN cart |->
        IF "quantity" \in DOMAIN cart[k] THEN cart[k]
        ELSE [name |-> cart[k].name, price |-> cart[k].price, quantity |-> 1]]

\* position of the first item named name, or 0
IndexOf(cart, name) ==
    IF \E k \in DOMAIN cart : cart[k].name = name
    THEN CHOOSE k \in DOMAIN cart :
            /\ cart[k].name = name
            /\ \A j \in DOMAIN cart : cart[j].name = name => k <= j
    ELSE 0

\* an add that never merges
CartAddAppends(cart, product_name, price) ==
    Append(WithQuantity(cart), [name |-> product_name, price |-> price, quantity |-> 1])

\* an add that takes the price of the latest add
CartAddReprices(cart, product_name, price) ==
    LET c == WithQuantity(cart)
        k == IndexOf(c, product_name)
    IN  IF k # 0
        THEN [c EXCEPT ![k].quantity = @ + 1, ![k].price = price]
        ELSE Append(c, [name |-> product_name, price |-> price, quantity |-> 1])

CartAdd(cart, product_name, price) ==
    LET c == WithQuantity(cart)
        k == IndexOf(c, product_name)
    IN  IF k # 0
        THEN [c EXCEPT ![k].quantity = @ + 1]
        ELSE Append(c, [name |-> product_name, price |-> price, quantity |-> 1])

\* a total that forgets the quantities
RECURSIVE CartTotalOfPrices(_)
CartTotalOfPrices(cart) ==
    IF cart = <<>> THEN 0 ELSE Head(cart).price + CartTotalOfPrices(Tail(cart))

\* sum(item["price"] * item["quantity"] for item in cart_items)
RECURSIVE CartTotal(_)
CartTotal(cart) ==
    IF cart = <<>> THEN 0
    ELSE Head(cart).price * Head(cart).quantity + CartTotal(Tail(cart))

\* ------------------------------------------------------------------ init
\* admin_route.init_db seeds the default admin; the products rows are put
\* there by hand (no program of the repository inserts one)
Catalogs ==
    { <<[name |-> "Widget", stock |-> a]>> : a \in 0..MaxStock }
    \cup
    { <<[name |-> "Widget", stock |-> a], [name |-> "Gadget", stock |-> MaxStock]>> :
        a \in 0..MaxStock }

Init ==
    /\ users = {[email |-> AdminEmail,
                 password |-> generate_password_hash(AdminPassword, "salt"),
                 role |-> "admin"]}
    /\ products \in Catalogs
    /\ orders = <<>>
    /\ order_items = <<>>
    /\ txn = NoTxn
    /\ session = [s \in Sessions |-> [user |-> {}, cart |-> <<>>]]
    /\ req = [s \in Sessions |-> Idle]
    /\ payments = <<>>
    /\ addsLog = [s \in Sessions |-> <<>>]
    /\ nAdds = 0
    /\ last = [s |-> "none", op |-> "init", out |-> "none"]

\* a browser sends its next request when its previous one was answered
Ready(s) == req[s].pc = "idle"

\* login_required: the redirect to the login page
Denied(s, op) ==
    /\ Ready(s)
    /\ ~LoggedIn(s)
    /\ Reply(s, op, "please_log_in")
    /\ UNCHANGED <<users, products, orders, order_items, txn, session, req,
                   payments, addsLog, nAdds>>

\* ------------------------------------------------------------------ accounts
UserRow(email) == CHOOSE u \in users : u.email = email

\* app.py POST /register
Register(s, raw, password) ==
    LET email == NormalizeEmail(raw) IN
    /\ Ready(s)
    /\ IF ~password_is_strong(password)
       THEN /\ Reply(s, "register", "weak_password")
            /\ UNCHANGED users
       ELSE IF \E u \in users : u.email = email
       THEN /\ Reply(s, "register", "email_already_registered")
            /\ UNCHANGED users
       ELSE \E salt \in Salts :
            /\ users' = users \cup
                 {[email |-> email,
                   password |-> generate_password_hash(password, salt),
                   role |-> "user"]}
            /\ Reply(s, "register", "account_created")
    /\ UNCHANGED <<products, orders, order_items, txn, session, req, payments,
                   addsLog, nAdds>>

\* a login that tells an unknown email from a wrong password
LoginTellsUnknown(s, raw, password) ==
    LET email == NormalizeEmail(raw) IN
    /\ Ready(s)
    /\ IF LoggedIn(s)
       THEN /\ ReplyToForm(s, "login", "to_main", raw, password)
            /\ UNCHANGED session
       ELSE IF ~ \E u \in users : u.email = email
       THEN /\ ReplyToForm(s, "login", "unknown_email", raw, password)
            /\ UNCHANGED session
       ELSE IF check_password_hash(UserRow(email).password, password)
       THEN /\ session' = [session EXCEPT ![s].user = {email}]
            /\ ReplyToForm(s, "login", "logged_in", raw, password)
       ELSE /\ ReplyToForm(s, "login", "invalid_email_or_password", raw, password)
            /\ UNCHANGED session
    /\ UNCHANGED <<users, products, orders, order_items, txn, req, payments,
                   addsLog, nAdds>>

\* app.py POST /login
Login(s, raw, password) ==
    LET email == NormalizeEmail(raw) IN
    /\ Ready(s)
    /\ IF LoggedIn(s)
       THEN /\ ReplyToForm(s, "login", "to_main", raw, password)
            /\ UNCHANGED session
       ELSE IF /\ \E u \in users : u.email = email
               /\ check_password_hash(UserRow(email).password, password)
       THEN /\ session' = [session EXCEPT ![s].user = {email}]
            /\ ReplyToForm(s, "login", "logged_in", raw, password)
       ELSE /\ ReplyToForm(s, "login", "invalid_email_or_password", raw, password)
            /\ UNCHANGED session
    /\ UNCHANGED <<users, products, orders, order_items, txn, req, payments,
                   addsLog, nAdds>>

\* a logout that drops the whole session
LogoutClearsSession(s) ==
    /\ Ready(s)
    /\ session' = [session EXCEPT ![s] = [user |-> {}, cart |-> <<>>]]
    /\ addsLog' = [addsLog EXCEPT ![s] = <<>>]
    /\ Reply(s, "logout", "logged_out")
    /\ UNCHANGED <<users, products, orders, order_items, txn, req, payments, nAdds>>

\* app.py GET /logout
Logout(s) ==
    /\ Ready(s)
    /\ session' = [session EXCEPT ![s].user = {}]
    /\ Reply(s, "logout", "logged_out")
    /\ UNCHANGED <<users, products, orders, order_items, txn, req, payments,
                   addsLog, nAdds>>

\* ------------------------------------------------------------------ cart requests
\* an add-to-cart without the login_required decorator
AddToCartUngated(s, product_name, price) ==
    /\ Ready(s)
    /\ nAdds < MaxAdds
    /\ session' = [session EXCEPT ![s].cart = CartAdd(@, product_name, price)]
    /\ addsLog' = [addsLog EXCEPT ![s] =
                      Append(@, [name |-> product_name, price |-> price])]
    /\ nAdds' = nAdds + 1
    /\ Reply(s, "add_to_cart", "added")
    /\ UNCHANGED <<users, products, orders, order_items, txn, req, payments>>

\* GET /add-to-cart/<product_name>/<float:price>
AddToCart(s, product_name, price) ==
    \/ Denied(s, "add_to_cart")
    \/ /\ Ready(s)
       /\ LoggedIn(s)
       /\ nAdds < MaxAdds
       /\ session' = [session EXCEPT ![s].cart = CartAdd(@, product_name, price)]
       /\ addsLog' = [addsLog EXCEPT ![s] =
                         Append(@, [name |-> product_name, price |-> price])]
       /\ nAdds' = nAdds + 1
       /\ Reply(s, "add_to_cart", "added")
       /\ UNCHANGED <<users, products, orders, order_items, txn, req, payments>>

\* GET /cart: the page shows the items and their total
Cart(s) ==
    \/ Denied(s, "cart")
    \/ /\ Ready(s)
       /\ LoggedIn(s)
       /\ last' = [s |-> s, op |-> "cart", out |-> "cart_page",
                   cart_items |-> session[s].cart,
                   total |-> CartTotal(session[s].cart)]
       /\ UNCHANGED <<users, products, orders, order_items, txn, session, req,
                      payments, addsLog, nAdds>>

\* ------------------------------------------------------------------ checkout
\* int(item['price'] * 100): prices are held in cents already
UnitAmount(price) == price

\* line items that say quantity 1 whatever the cart says
LineItemsOfOne(cart_items) ==
    [k \in DOMAIN cart_items |->
        [name |-> cart_items[k].name,
         unit_amount |-> UnitAmount(cart_items[k].price),
         quantity |-> 1]]

\* one line item per cart item
LineItems(cart_items) ==
    [k \in DOMAIN cart_items |->
        [name |-> cart_items[k].name,
         unit_amount |-> UnitAmount(cart_items[k].price),
         quantity |-> cart_items[k].quantity]]

\* a checkout that empties the cart once the payment session exists
CheckoutClearsCart(s) ==
    \/ Denied(s, "checkout")
    \/ /\ Ready(s)
       /\ LoggedIn(s)
       /\ session[s].cart = <<>>
       /\ Reply(s, "checkout", "cart_is_empty")
       /\ UNCHANGED <<users, products, orders, order_items, txn, session, req,
                      payments, addsLog, nAdds>>
    \/ /\ Ready(s)
       /\ LoggedIn(s)
       /\ session[s].cart # <<>>
       /\ Len(payments) < MaxPayments
       /\ payments' = Append(payments, [owner |-> s, status |-> "open"])
       /\ last' = [s |-> s, op |-> "checkout", out |-> "to_payment_page",
                   customer_email |-> UserOf(s),
                   line_items |-> LineItems(session[s].cart)]
       /\ session' = [session EXCEPT ![s].cart = <<>>]
       /\ addsLog' = [addsLog EXCEPT ![s] = <<>>]
       /\ UNCHANGED <<users, products, orders, order_items, txn, req, nAdds>>

\* POST /checkout
Checkout(s) ==
    \/ Denied(s, "checkout")
    \/ /\ Ready(s)
       /\ LoggedIn(s)
       /\ session[s].cart = <<>>
       /\ Reply(s, "checkout", "cart_is_empty")
       /\ UNCHANGED <<users, products, orders, order_items, txn, session, req,
                      payments, addsLog, nAdds>>
    \/ /\ Ready(s)
       /\ LoggedIn(s)
       /\ session[s].cart # <<>>
       /\ Len(payments) < MaxPayments
       /\ payments' = Append(payments,
                        [owner |-> s, status |-> "open"])
       /\ last' = [s |-> s, op |-> "checkout", out |-> "to_payment_page",
                   customer_email |-> UserOf(s),
                   line_items |-> LineItems(session[s].cart)]
       /\ UNCHANGED <<users, products, orders, order_items, txn, session, req,
                      addsLog, nAdds>>

\* the customer pays on the hosted page; the provider then sends the browser
\* to success_url, which is the plain /success address
ProviderPay(p) ==
    /\ payments[p].status = "open"
    /\ payments' = [payments EXCEPT ![p].status = "paid"]
    /\ Reply(payments[p].owner, "provider", "paid")
    /\ UNCHANGED <<users, products, orders, order_items, txn, session, req,
                   addsLog, nAdds>>

\* the customer backs out of the hosted page; the provider then sends the
\* browser to cancel_url
ProviderCancel(p) ==
    /\ payments[p].status = "open"
    /\ payments' = [payments EXCEPT ![p].status = "cancelled"]
    /\ Reply(payments[p].owner, "provider", "cancelled")
    /\ UNCHANGED <<users, products, orders, order_items, txn, session, req,
                   addsLog, nAdds>>

\* a cancel that empties the cart
CancelClearsCart(s) ==
    /\ Ready(s)
    /\ LoggedIn(s)
    /\ session' = [session EXCEPT ![s].cart = <<>>]
    /\ addsLog' = [addsLog EXCEPT ![s] = <<>>]
    /\ Reply(s, "cancel", "to_cart")
    /\ UNCHANGED <<users, products, orders, order_items, txn, req, payments, nAdds>>

\* GET /cancel
Cancel(s) ==
    \/ Denied(s, "cancel")
    \/ /\ Ready(s)
       /\ LoggedIn(s)
       /\ Reply(s, "cancel", "to_cart")
       /\ UNCHANGED <<users, products, orders, order_items, txn, session, req,
                      payments, addsLog, nAdds>>

\* ------------------------------------------------------------------ /success
\* SELECT id FROM products WHERE name = ? ... fetchone(): the first such row
FindByName(rows, name) ==
    IF \E id \in DOMAIN rows : rows[id].name = name
    THEN CHOOSE id \in DOMAIN rows :
            /\ rows[id].name = name
            /\ \A j \in DOMAIN rows : rows[j].name = name => id <= j
    ELSE Null

\* an insert that keeps one order per user (INSERT OR REPLACE)
InsertOrderReplacing(rows, user_email, total) ==
    LET kept == SelectSeq(rows, LAMBDA r : r.user_email # user_email)
    IN  Append(kept, [id |-> Len(rows) + 1, user_email |-> user_email, total |-> total])

\* INSERT INTO orders (user_email, total, created_at)
InsertOrder(rows, user_email, total) ==
    Append(rows, [id |-> Len(rows) + 1, user_email |-> user_email, total |-> total])

\* INSERT INTO order_items (order_id, product_id, product_name, unit_price, quantity)
InsertOrderItem(rows, order_id, product_id, item) ==
    Append(rows, [id |-> Len(rows) + 1,
                  order_id |-> order_id,
                  product_id |-> product_id,
                  product_name |-> item.name,
                  unit_price |-> item.price,
                  quantity |-> item.quantity])

\* a decrement of one unit per line
DecrementStockByOne(rows, product_id, quantity) ==
    [rows EXCEPT ![product_id].stock = @ - 1]

\* UPDATE products SET stock = stock - ? WHERE id = ?
DecrementStock(rows, product_id, quantity) ==
    [rows EXCEPT ![product_id].stock = @ - quantity]

\* the handler up to the first statement on the database: the cart is popped
\* from the request's session and the total is summed
SuccessBegin(s) ==
    \/ Denied(s, "success")
    \/ /\ Ready(s)
       /\ LoggedIn(s)
       /\ session[s].cart = <<>>
       /\ Reply(s, "success", "success_page")
       /\ UNCHANGED <<users, products, orders, order_items, txn, session, req,
                      payments, addsLog, nAdds>>
    \/ /\ Ready(s)
       /\ LoggedIn(s)
       /\ session[s].cart # <<>>
       /\ req' = [req EXCEPT ![s] =
                    [pc |-> "insert_order", cart_items |-> session[s].cart,
                     i |-> 1, order_id |-> Null]]
       /\ Reply(s, "success", "cart_popped")
       /\ UNCHANGED <<users, products, orders, order_items, txn, session,
                      payments, addsLog, nAdds>>

\* the INSERT into orders opens the write transaction; SQLite admits one
\* writer, so the statement waits while another connection holds one
SuccessInsertOrder(s) ==
    /\ req[s].pc = "insert_order"
    /\ txn.owner = {}
    /\ txn' = [owner |-> {s},
               products |-> products,
               orders |-> InsertOrder(orders, UserOf(s), CartTotal(req[s].cart_items)),
               order_items |-> order_items]
    /\ req' = [req EXCEPT ![s].pc = "items", ![s].order_id = Len(orders) + 1]
    /\ Reply(s, "success", "order_inserted")
    /\ UNCHANGED <<users, products, orders, order_items, session, payments,
                   addsLog, nAdds>>

\* one turn of the loop over the cart items
SuccessItem(s) ==
    /\ req[s].pc = "items"
    /\ req[s].i <= Len(req[s].cart_items)
    /\ LET item == req[s].cart_items[req[s].i]
           product_id == FindByName(txn.products, item.name)
           inserted == InsertOrderItem(txn.order_items, req[s].order_id,
                                       product_id, item)
       IN  txn' = [txn EXCEPT
                     !.order_items = inserted,
                     !.products = IF product_id # Null
                                  THEN DecrementStock(@, product_id, item.quantity)
                                  ELSE @]
    /\ req' = [req EXCEPT ![s].i = @ + 1]
    /\ Reply(s, "success", "item_inserted")
    /\ UNCHANGED <<users, products, orders, order_items, session, payments,
                   addsLog, nAdds>>

\* conn.commit() and the response, which stores the session without its cart
SuccessCommit(s) ==
    /\ req[s].pc = "items"
    /\ req[s].i > Len(req[s].cart_items)
    /\ products' = txn.products
    /\ orders' = txn.orders
    /\ order_items' = txn.order_items
    /\ txn' = NoTxn
    /\ session' = [session EXCEPT ![s].cart = <<>>]
    /\ addsLog' = [addsLog EXCEPT ![s] = <<>>]
    /\ req' = [req EXCEPT ![s] = Idle]
    /\ Reply(s, "success", "success_page")
    /\ UNCHANGED <<users, payments, nAdds>>

\* a statement raises (the wait for the writer times out: "database is
\* locked"; the disk fails): the connection is closed without a commit, which
\* rolls its transaction back.  The framework answers 500 and stores the
\* session as the handler left it, without the cart; a server that propagates
\* exceptions (app.run(debug=True)) sends no cookie and the browser keeps the
\* cart.
SuccessFail(s, propagate) ==
    /\ req[s].pc \in {"insert_order", "items"}
    /\ txn' = IF txn.owner = {s} THEN NoTxn ELSE txn
    /\ IF propagate
       THEN UNCHANGED <<session, addsLog>>
       ELSE /\ session' = [session EXCEPT ![s].cart = <<>>]
            /\ addsLog' = [addsLog EXCEPT ![s] = <<>>]
    /\ req' = [req EXCEPT ![s] = Idle]
    /\ Reply(s, "success", "server_error")
    /\ UNCHANGED <<users, products, orders, order_items, payments, nAdds>>

\* ------------------------------------------------------------------ admin_route.py
\* POST /register of admin_route.py: the email is stored as typed
AdminRouteRegister(s, raw, password) ==
    /\ Ready(s)
    /\ IF ~password_is_strong(password)
       THEN /\ Reply(s, "admin_route_register", "weak_password")
            /\ UNCHANGED users
       ELSE IF \E u \in users : u.email = raw
       THEN /\ Reply(s, "admin_route_register", "email_already_exists")
            /\ UNCHANGED users
       ELSE \E salt \in Salts :
            /\ users' = users \cup
                 {[email |-> raw,
                   password |-> generate_password_hash(password, salt),
                   role |-> "user"]}
            /\ Reply(s, "admin_route_register", "account_created")
    /\ UNCHANGED <<products, orders, order_items, txn, session, req, payments,
                   addsLog, nAdds>>

\* POST /login of admin_route.py: the email is looked up as typed
AdminRouteLogin(s, raw, password) ==
    /\ Ready(s)
    /\ IF LoggedIn(s)
       THEN /\ ReplyToForm(s, "admin_route_login", "to_main", raw, password)
            /\ UNCHANGED session
       ELSE IF /\ \E u \in users : u.email = raw
               /\ check_password_hash(UserRow(raw).password, password)
       THEN /\ session' = [session EXCEPT ![s].user = {raw}]
            /\ ReplyToForm(s, "admin_route_login", "logged_in", raw, password)
       ELSE /\ ReplyToForm(s, "admin_route_login", "invalid_email_or_password", raw, password)
            /\ UNCHANGED session
    /\ UNCHANGED <<users, products, orders, order_items, txn, req, payments,
                   addsLog, nAdds>>

AdminPages == {"admin_dashboard", "admin_products", "admin_orders", "admin_users"}

\* a gate that trusts the identity the session was given at login
admin_required_cached(s) ==
    IF ~LoggedIn(s) THEN "you_must_log_in"
    ELSE IF UserOf(s) = AdminEmail THEN "allowed"
    ELSE "access_denied"

\* the decision of admin_required: the role is selected from users by the
\* session's email
admin_required(s) ==
    IF ~LoggedIn(s) THEN "you_must_log_in"
    ELSE IF \E u \in users : u.email = UserOf(s) /\ u.role = "admin"
    THEN "allowed"
    ELSE "access_denied"

\* GET /admin, /admin/products, /admin/orders, /admin/users
Admin(s, page) ==
    /\ Ready(s)
    /\ Reply(s, page, admin_required(s))
    /\ UNCHANGED <<users, products, orders, order_items, txn, session, req,
                   payments, addsLog, nAdds>>

\* the users table is edited from outside the two programs (neither has a
\* request that changes a role or deletes an account)
SetRole(email, role) ==
    /\ \E u \in users : u.email = email /\ u.role # role
    /\ users' = {IF u.email = email THEN [u EXCEPT !.role = role] ELSE u : u \in users}
    /\ last' = [s |-> "none", op |-> "set_role", out |-> role]
    /\ UNCHANGED <<products, orders, order_items, txn, session, req, payments,
                   addsLog, nAdds>>

DeleteUser(email) ==
    /\ \E u \in users : u.email = email
    /\ users' = {u \in users : u.email # email}
    /\ last' = [s |-> "none", op |-> "delete_user", out |-> "deleted"]
    /\ UNCHANGED <<products, orders, order_items, txn, session, req, payments,
                   addsLog, nAdds>>

\* ------------------------------------------------------------------ next
\* the account each browser may register and the credentials it may log in with
Registrations == {[email |-> UserRawEmail, password |-> UserPassword]}
Logins == {[email |-> UserRawEmail, password |-> UserPassword],
           [email |-> AdminEmail, password |-> AdminPassword]}

Identify ==
    \/ \E s \in Sessions, r \in Registrations : Register(s, r.email, r.password)
    \/ \E s \in Sessions, l \in Logins : Login(s, l.email, l.password)

Confirm ==
    \/ \E s \in Sessions : SuccessBegin(s)
    \/ \E s \in Sessions : SuccessInsertOrder(s)
    \/ \E s \in Sessions : SuccessItem(s)
    \/ \E s \in Sessions : SuccessCommit(s)
    \/ \E s \in Sessions, propagate \in BOOLEAN : SuccessFail(s, propagate)

\* the order pipeline: the shop's pages link each product at its list price
Next ==
    \/ Identify
    \/ \E s \in Sessions, n \in ProductNames : AddToCart(s, n, ListPrice(n))
    \/ \E s \in Sessions : Cart(s)
    \/ \E s \in Sessions : Cancel(s)
    \/ Confirm

Spec == Init /\ [][Next]_vars

\* the catalogue of one product, with any stock it may start with
InitOneProduct == Init /\ Len(products) = 1

\* the cart alone: any price may be written into the add-to-cart address
NextCart ==
    \/ \E s \in Sessions : Login(s, AdminEmail, AdminPassword)
    \/ \E s \in Sessions, n \in ProductNames, p \in Prices : AddToCart(s, n, p)
    \/ \E s \in Sessions : Cart(s)
    \/ Confirm

SpecCart == InitOneProduct /\ [][NextCart]_vars

\* the payment round trip of one product
NextPay ==
    \/ \E s \in Sessions : Login(s, AdminEmail, AdminPassword)
    \/ \E s \in Sessions : AddToCart(s, "Widget", ListPrice("Widget"))
    \/ \E s \in Sessions : Cart(s)
    \/ \E s \in Sessions : Checkout(s)
    \/ \E p \in DOMAIN payments : ProviderPay(p)
    \/ \E p \in DOMAIN payments : ProviderCancel(p)
    \/ \E s \in Sessions : Cancel(s)
    \/ Confirm

SpecPay == InitOneProduct /\ [][NextPay]_vars

\* the admin gate: accounts, logins and edits of the users table
NextAdmin ==
    \/ \E s \in Sessions, r \in Registrations : Register(s, r.email, r.password)
    \/ \E s \in Sessions, l \in Logins : Login(s, l.email, l.password)
    \/ \E s \in Sessions, l \in Logins : AdminRouteLogin(s, l.email, l.password)
    \/ \E s \in Sessions : Logout(s)
    \/ \E s \in Sessions, page \in AdminPages : Admin(s, page)
    \/ \E e \in {AdminEmail, UserEmail}, role \in {"admin", "user"} : SetRole(e, role)
    \/ \E e \in {AdminEmail, UserEmail} : DeleteUser(e)

SpecAdmin == InitOneProduct /\ [][NextAdmin]_vars

\* checkout alone: carts of both products go to the payment provider
NextCheckout ==
    \/ \E s \in Sessions : Login(s, AdminEmail, AdminPassword)
    \/ \E s \in Sessions, n \in ProductNames : AddToCart(s, n, ListPrice(n))
    \/ \E s \in Sessions : Checkout(s)
    \/ \E p \in DOMAIN payments : ProviderPay(p)
    \/ \E p \in DOMAIN payments : ProviderCancel(p)
    \/ \E s \in Sessions : Cancel(s)

SpecCheckout == InitOneProduct /\ [][NextCheckout]_vars

\* one product and two accounts through login, logout and confirmation
NextSession ==
    \/ Identify
    \/ \E s \in Sessions : Logout(s)
    \/ \E s \in Sessions : AddToCart(s, "Widget", ListPrice("Widget"))
    \/ \E s \in Sessions : Cart(s)
    \/ \E s \in Sessions : Cancel(s)
    \/ Confirm

SpecSession == InitOneProduct /\ [][NextSession]_vars

\* one product and one account through login, logout and every gated request
NextGate ==
    \/ \E s \in Sessions : Login(s, AdminEmail, AdminPassword)
    \/ \E s \in Sessions : Logout(s)
    \/ \E s \in Sessions : AddToCart(s, "Widget", ListPrice("Widget"))
    \/ \E s \in Sessions : Cart(s)
    \/ \E s \in Sessions : Checkout(s)
    \/ \E s \in Sessions : Cancel(s)
    \/ Confirm

SpecGate == InitOneProduct /\ [][NextGate]_vars

\* accounts alone: both programs' register and login forms, with emails in
\* several spellings and good, bad and weak passwords
AuthEmails == {UserRawEmail, UserEmail, AdminEmail}
AuthPasswords == {UserPassword, AdminPassword, WeakPassword}

NextAuth ==
    \/ \E s \in Sessions, e \in AuthEmails, pw \in AuthPasswords : Register(s, e, pw)
    \/ \E s \in Sessions, e \in AuthEmails, pw \in AuthPasswords : AdminRouteRegister(s, e, pw)
    \/ \E s \in Sessions, e \in AuthEmails, pw \in AuthPasswords : Login(s, e, pw)
    \/ \E s \in Sessions, e \in AuthEmails, pw \in AuthPasswords : AdminRouteLogin(s, e, pw)
    \/ \E s \in Sessions : Logout(s)

SpecAuth == InitOneProduct /\ [][NextAuth]_vars

\* ------------------------------------------------------------------ claims
\* the step in which the /success request of s commits and answers
CommitStep(s) ==
    /\ req[s].pc = "items"
    /\ req'[s].pc = "idle"
    /\ last' = [s |-> s, op |-> "success", out |-> "success_page"]

\* the step in which the /success request of s ends in an error
FailStep(s) ==
    /\ req[s].pc # "idle"
    /\ last' = [s |-> s, op |-> "success", out |-> "server_error"]

\* unit_price x quantity summed over the first k lines
RECURSIVE SumOfLines(_, _)
SumOfLines(lines, k) ==
    IF k = 0 THEN 0
    ELSE lines[k].price * lines[k].quantity + SumOfLines(lines, k - 1)

\* C1: a confirmation of a non-empty cart that runs to its response adds
\* exactly one order, for the session's identity and with the sum of
\* unit price x quantity as its total, adds one order item per cart item
\* with that item's name, unit price and quantity under the order's id, and
\* leaves the session without a cart.
C1_ConfirmCreatesOrder ==
    [][\A s \in Sessions : CommitStep(s) =>
        LET cart == session[s].cart
            o == orders'[Len(orders')]
        IN  /\ cart # <<>>
            /\ Len(orders') = Len(orders) + 1
            /\ SubSeq(orders', 1, Len(orders)) = orders
            /\ o.user_email = UserOf(s)
            /\ o.total = SumOfLines(cart, Len(cart))
            /\ Len(order_items') = Len(order_items) + Len(cart)
            /\ SubSeq(order_items', 1, Len(order_items)) = order_items
            /\ \A k \in DOMAIN cart :
                  LET oi == order_items'[Len(order_items) + k]
                  IN  /\ oi.order_id = o.id
                      /\ oi.product_name = cart[k].name
                      /\ oi.unit_price = cart[k].price
                      /\ oi.quantity = cart[k].quantity
            /\ session'[s].cart = <<>>
    ]_vars

\* a two-line cart was confirmed: one order of 1 x 10 + 1 x 5 with two items
C1_Witness ==
    /\ last = [s |-> "s1", op |-> "success", out |-> "success_page"]
    /\ Len(orders) = 1
    /\ orders[1].total = 15
    /\ Len(order_items) = 2
    /\ session["s1"].cart = <<>>

PaidSessions == {p \in DOMAIN payments : payments[p].status = "paid"}

\* C2: in every reachable state there are no more orders than confirmed
\* payment sessions.
C2_OrdersWithinPayments ==
    Len(orders) <= Cardinality(PaidSessions)

\* the units of product id on committed order items
RECURSIVE UnitsSold(_, _)
UnitsSold(id, k) ==
    IF k = 0 THEN 0
    ELSE (IF order_items[k].product_id = id THEN order_items[k].quantity ELSE 0)
         + UnitsSold(id, k - 1)

\* order k is for one unit of product id and nothing else
OneUnitOrder(k, id) ==
    /\ \E j \in DOMAIN order_items :
          /\ order_items[j].order_id = orders[k].id
          /\ order_items[j].product_id = id
          /\ order_items[j].quantity = 1
    /\ Cardinality({j \in DOMAIN order_items :
                      order_items[j].order_id = orders[k].id}) = 1

\* C3: two sessions (seen here as two identities) that each confirm one unit
\* of a product that had a stock of 1 do not both get an order, and the stock
\* does not end below 0.  The stock the product had is its stock now plus the
\* units on its order items.
C3_LastUnitSoldOnce ==
    \A id \in DOMAIN products : \A k1, k2 \in DOMAIN orders :
        ( /\ products[id].stock + UnitsSold(id, Len(order_items)) = 1
          /\ orders[k1].user_email # orders[k2].user_email
          /\ OneUnitOrder(k1, id)
          /\ OneUnitOrder(k2, id) )
        => FALSE

\* C4: every product's stock is >= 0 in every reachable state.
C4_StockNeverNegative ==
    \A id \in DOMAIN products : products[id].stock >= 0

\* C5: a confirmation persists an order only when the provider holds a paid
\* payment session that the checkout of that browser created.
C5_OrderOnlyAfterPayment ==
    [][\A s \in Sessions : CommitStep(s) =>
        \E p \in DOMAIN payments :
            payments[p].owner = s /\ payments[p].status = "paid"
    ]_vars

\* C6: a confirmation that fails leaves no order, no order item and no stock
\* decrement, and the session cart holds what it held before.
C6_FailureLeavesNothing ==
    [][\A s \in Sessions : FailStep(s) =>
        /\ orders' = orders
        /\ order_items' = order_items
        /\ products' = products
        /\ session'[s].cart = session[s].cart
    ]_vars

\* C7: a confirmation does not commit when a cart item asks for more than
\* the stock of the product it resolves to.
C7_InsufficientStockFails ==
    [][\A s \in Sessions : CommitStep(s) =>
        \A k \in DOMAIN req[s].cart_items :
            LET item == req[s].cart_items[k]
                id == FindByName(products, item.name)
            IN  id # Null => item.quantity <= products[id].stock
    ]_vars

CountOf(log, name) == Cardinality({i \in DOMAIN log : log[i].name = name})
FirstAdd(log, name) ==
    CHOOSE i \in DOMAIN log :
        log[i].name = name /\ \A j \in DOMAIN log : log[j].name = name => i <= j

\* C8: the cart holds one entry per name added since it was last emptied, in
\* the order of the first adds, each with the number of adds of its name as
\* its quantity, and the cart page shows the sum of unit price x quantity.
C8_CartMergesAdds ==
    /\ \A s \in Sessions :
        LET cart == session[s].cart
            log == addsLog[s]
        IN  /\ {cart[k].name : k \in DOMAIN cart} = {log[i].name : i \in DOMAIN log}
            /\ \A j, k \in DOMAIN cart : j # k => cart[j].name # cart[k].name
            /\ \A j, k \in DOMAIN cart :
                  j < k => FirstAdd(log, cart[j].name) < FirstAdd(log, cart[k].name)
            /\ \A k \in DOMAIN cart :
                  /\ cart[k].quantity = CountOf(log, cart[k].name)
                  /\ cart[k].quantity >= 1
    /\ (last.op = "cart" /\ last.out = "cart_page") =>
          /\ last.cart_items = session[last.s].cart
          /\ last.total = SumOfLines(session[last.s].cart, Len(session[last.s].cart))

\* "Widget" was added twice and the cart page shows one entry of quantity 2
C8_Witness ==
    /\ last.op = "cart"
    /\ last.out = "cart_page"
    /\ addsLog[last.s] = <<[name |-> "Widget", price |-> 10], [name |-> "Widget", price |-> 10]>>
    /\ session[last.s].cart = <<[name |-> "Widget", price |-> 10, quantity |-> 2]>>
    /\ last.total = 20

\* C9: /cancel leaves the session cart, the orders, the order items and the
\* stock as they were, and the session can still view and check out the cart.
C9_CancelKeepsCart ==
    [][(last'.op = "cancel" /\ last'.out = "to_cart") =>
        /\ session' = session
        /\ orders' = orders
        /\ order_items' = order_items
        /\ products' = products
        /\ txn' = txn
        /\ session'[last'.s].user # {}
        /\ req'[last'.s].pc = "idle"
    ]_vars

\* a session with a cart was answered by /cancel
C9_Witness ==
    /\ last.op = "cancel"
    /\ last.out = "to_cart"
    /\ session[last.s].cart # <<>>

\* C10: an admin request is allowed iff, when it is made, the session has an
\* identity whose row in users has the role admin.
C10_AdminGateReadsStore ==
    [][last'.op \in AdminPages =>
        (last'.out = "allowed" <=>
            /\ session[last'.s].user # {}
            /\ \E u \in users :
                  u.email \in session[last'.s].user /\ u.role = "admin")
    ]_vars

\* the seeded admin, still logged in, is denied after its role was changed
C10_Witness ==
    /\ last.op \in AdminPages
    /\ last.out = "access_denied"
    /\ session[last.s].user = {AdminEmail}
    /\ \E u \in users : u.email = AdminEmail /\ u.role = "user"

\* C11: no two accounts have the same email after trimming and lowercasing.
C11_UniqueNormalizedEmail ==
    \A u, v \in users :
        NormalizeEmail(u.email) = NormalizeEmail(v.email) => u = v

\* an account exists for the trimmed, lowercased email of the form and the
\* form's password verifies against its digest
FormVerifies(form) ==
    \E u \in users :
        /\ u.email = NormalizeEmail(form.email)
        /\ check_password_hash(u.password, form.password)

\* C12: a login form posted by a session without an identity sets the
\* identity to the normalized email iff an account exists for that email and
\* the password verifies; otherwise the session stays without an identity.
C12_LoginIffVerified ==
    [][(last'.op \in {"login", "admin_route_login"} /\ session[last'.s].user = {}) =>
        session'[last'.s].user =
            IF FormVerifies(last') THEN {NormalizeEmail(last'.email)} ELSE {}
    ]_vars

\* C13: every login of app.py that fails gets the same reply and leaves the
\* session and the users table as they were, whether or not the email is
\* known.
C13_FailedLoginUniform ==
    [][(/\ last'.op = "login"
        /\ session[last'.s].user = {}
        /\ session'[last'.s].user = {}) =>
        /\ last'.out = "invalid_email_or_password"
        /\ session' = session
        /\ users' = users
    ]_vars

\* a login with a registered email and a wrong password was refused
C13_Witness ==
    /\ last.op = "login"
    /\ last.out = "invalid_email_or_password"
    /\ \E u \in users :
          /\ u.email = NormalizeEmail(last.email)
          /\ ~check_password_hash(u.password, last.password)

\* C14: /checkout asks the provider for a payment session iff the cart has
\* an item: with an empty cart it answers that the cart is empty and the
\* provider is not contacted; otherwise it asks for exactly one session whose
\* line items are the cart items, one each, with their names and quantities.
\* No other request contacts the provider.
C14_CheckoutIffCart ==
    [][/\ (last'.op = "checkout" /\ session[last'.s].user # {}) =>
            LET cart == session[last'.s].cart IN
            IF cart = <<>>
            THEN /\ last'.out = "cart_is_empty"
                 /\ payments' = payments
            ELSE /\ last'.out = "to_payment_page"
                 /\ Len(payments') = Len(payments) + 1
                 /\ SubSeq(payments', 1, Len(payments)) = payments
                 /\ payments'[Len(payments')] = [owner |-> last'.s, status |-> "open"]
                 /\ Len(last'.line_items) = Len(cart)
                 /\ \A k \in DOMAIN cart :
                       /\ last'.line_items[k].name = cart[k].name
                       /\ last'.line_items[k].quantity = cart[k].quantity
       /\ Len(payments') # Len(payments) =>
            /\ last'.op = "checkout"
            /\ session[last'.s].cart # <<>>
    ]_vars

\* a cart of two lines went to the provider as one session of two line items
C14_Witness ==
    /\ last.op = "checkout"
    /\ last.out = "to_payment_page"
    /\ Len(last.line_items) = 2
    /\ Len(payments) = 1

\* C15: /checkout leaves the session cart, the orders, the order items and
\* the stock as they were, and the cart then stays as it is until an add
\* extends it or a confirmation of its session takes it.
C15_CheckoutKeepsState ==
    [][/\ last'.op = "checkout" =>
            /\ session' = session
            /\ orders' = orders
            /\ order_items' = order_items
            /\ products' = products
            /\ txn' = txn
       /\ \A s \in Sessions :
            session'[s].cart # session[s].cart =>
                /\ last'.s = s
                /\ last'.op \in {"add_to_cart", "success"}
    ]_vars

\* a session holds its cart after it was sent to the payment page
C15_Witness ==
    /\ last.op = "checkout"
    /\ last.out = "to_payment_page"
    /\ session[last.s].cart # <<>>
    /\ \E p \in DOMAIN payments : payments[p].owner = last.s

GatedOps == {"add_to_cart", "cart", "checkout", "success", "cancel"}

\* C16: a gated request (add-to-cart, cart, checkout, success, cancel) of a
\* session without an identity is answered with the redirect to the login
\* page and changes nothing.
C16_NoIdentityNoService ==
    [][(last'.op \in GatedOps /\ session[last'.s].user = {}) =>
        /\ last'.out = "please_log_in"
        /\ UNCHANGED <<users, products, orders, order_items, txn, session, req,
                       payments, addsLog>>
    ]_vars

\* after a logout, /success was refused and the cart is still in the session
C16_Witness ==
    /\ last.op = "success"
    /\ last.out = "please_log_in"
    /\ session[last.s].user = {}
    /\ session[last.s].cart # <<>>

\* C19: /logout removes the identity and nothing else; the cart is the same
\* after the logout and after the next login, whichever account logs in; a
\* confirmation records the order under the identity the session has then.
C19_CartSurvivesLogout ==
    [][/\ last'.op = "logout" =>
            /\ session' = [session EXCEPT ![last'.s].user = {}]
            /\ UNCHANGED <<users, products, orders, order_items, txn, req,
                           payments, addsLog>>
       /\ last'.op = "login" =>
            /\ \A s \in Sessions : session'[s].cart = session[s].cart
            /\ addsLog' = addsLog
       /\ \A s \in Sessions : CommitStep(s) =>
            /\ {orders'[Len(orders')].user_email} = session[s].user
            /\ Len(order_items') = Len(order_items) + Len(session[s].cart)
    ]_vars

\* the account of Bob has just logged in to a session that holds a cart: the
\* cart was filled before the logout that preceded this login
C19_Witness ==
    /\ last.op = "login"
    /\ last.out = "logged_in"
    /\ session[last.s].user = {UserEmail}
    /\ session[last.s].cart # <<>>

IsPrefix(a, b) == Len(a) <= Len(b) /\ SubSeq(b, 1, Len(a)) = a

\* C17: no step changes or removes a persisted order or order item: both
\* tables only grow at their ends.
C17_OrdersAppendOnly ==
    [][IsPrefix(orders, orders') /\ IsPrefix(order_items, order_items')]_vars

\* a second order was persisted behind the first
C17_Witness ==
    /\ Len(orders) = 2
    /\ Len(order_items) = 2
    /\ last.op = "success"
    /\ last.out = "success_page"

\* the quantity the cart asks of product id, going by the ids on the order
\* items written for it behind the first n rows of order_items'
RECURSIVE UnitsOrdered(_, _, _, _)
UnitsOrdered(cart, n, id, k) ==
    IF k = 0 THEN 0
    ELSE (IF order_items'[n + k].product_id = id THEN cart[k].quantity ELSE 0)
         + UnitsOrdered(cart, n, id, k - 1)

\* C18: at a confirmation each cart item's order item carries the id of a
\* product of that name, or null iff there is none; each product's stock goes
\* down by the quantity of the item resolved to it and by nothing else.
C18_ResolvedByName ==
    [][\A s \in Sessions : CommitStep(s) =>
        LET cart == session[s].cart
            n == Len(order_items)
        IN  /\ \A k \in DOMAIN cart :
                  LET id == order_items'[n + k].product_id
                  IN  /\ id # Null =>
                            id \in DOMAIN products /\ products[id].name = cart[k].name
                      /\ id = Null <=>
                            ~ \E j \in DOMAIN products : products[j].name = cart[k].name
            /\ DOMAIN products' = DOMAIN products
            /\ \A id \in DOMAIN products :
                  /\ products'[id].name = products[id].name
                  /\ products'[id].stock =
                        products[id].stock - UnitsOrdered(cart, n, id, Len(cart))
    ]_vars

\* an order with one resolved item and one item of a name not in the catalogue
C18_Witness ==
    /\ last.op = "success"
    /\ last.out = "success_page"
    /\ \E j, k \in DOMAIN order_items :
          /\ order_items[j].order_id = order_items[k].order_id
          /\ order_items[j].product_id = Null
          /\ order_items[k].product_id # Null

\* the price of each cart entry of s is the price of the first add of its name
CartPriceIsFirstAdd(s) ==
    \A k \in DOMAIN session[s].cart :
        session[s].cart[k].price =
            addsLog[s][FirstAdd(addsLog[s], session[s].cart[k].name)].price

\* C20: a cart entry keeps the unit price of the first add of its name,
\* whatever price later adds of that name carry, and the order item written
\* at confirmation carries that price for the whole quantity.
C20_PriceOfFirstAdd ==
    [][/\ \A s \in Sessions : CartPriceIsFirstAdd(s)'
       /\ \A s \in Sessions : CommitStep(s) =>
            \A k \in DOMAIN session[s].cart :
                LET oi == order_items'[Len(order_items) + k]
                    name == session[s].cart[k].name
                IN  /\ oi.product_name = name
                    /\ oi.unit_price = addsLog[s][FirstAdd(addsLog[s], name)].price
                    /\ oi.quantity = CountOf(addsLog[s], name)
    ]_vars

\* "Widget" was added at 10 and then at 5: the order item being written says
\* 2 at 10
C20_Witness ==
    \E s \in Sessions :
        /\ addsLog[s] = <<[name |-> "Widget", price |-> 10], [name |-> "Widget", price |-> 5]>>
        /\ req[s].pc = "items"
        /\ txn.owner = {s}
        /\ \E j \in DOMAIN txn.order_items :
              /\ txn.order_items[j].unit_price = 10
              /\ txn.order_items[j].quantity = 2

====
